---------------------------- MODULE Spec2Model ----------------------------
(***************************************************************************)
(* Model of the SCM provider adapters of sam-scm-github-plugin             *)
(* (src/src/v1/services/github/github.provider.js): GithubProvider and     *)
(* BitbucketProvider, their lifecycle (init, createClient,                 *)
(* actionUpdatePluginConfig) and their domain actions.                     *)
(*                                                                         *)
(* JavaScript values are tagged records of one shape, strings are          *)
(* sequences of one-character strings (so that trim() is computed), and    *)
(* every handler is an operator that returns its completion: a returned    *)
(* value or a thrown error, together with the external calls it made.      *)
(***************************************************************************)
EXTENDS Integers, Sequences, FiniteSets, TLC

VARIABLES provider, client, owner, store, verified, last, prevInit, inits, prevCall

vars == <<provider, client, owner, store, verified, last, prevInit, inits, prevCall>>

---------------------------------------------------------------------------
(* JavaScript values *)

Undefined == [t |-> "undefined", s |-> <<>>, b |-> FALSE, a |-> <<>>]

\* The completion of an expression that threw a TypeError while being evaluated.
TypeErrorValue == [t |-> "TypeError", s |-> <<>>, b |-> FALSE, a |-> <<>>]

Str(s) == [t |-> "string", s |-> s, b |-> FALSE, a |-> <<>>]

Bool(b) == [t |-> "boolean", s |-> <<>>, b |-> b, a |-> <<>>]

Arr(a) == [t |-> "array", s |-> <<>>, b |-> FALSE, a |-> a]

\* ToBoolean: "" , false and undefined are falsy; every array is truthy.
Truthy(v) ==
    CASE v.t = "string" -> v.s # <<>>
      [] v.t = "boolean" -> v.b
      [] v.t = "array" -> TRUE
      [] OTHER -> FALSE

\* a || d
OrElse(v, d) == IF Truthy(v) THEN v ELSE d

IsWhitespace(c) == c = " "

RECURSIVE TrimStart(_)
TrimStart(s) ==
    IF s # <<>> /\ IsWhitespace(Head(s)) THEN TrimStart(Tail(s)) ELSE s

RECURSIVE TrimEnd(_)
TrimEnd(s) ==
    IF s # <<>> /\ IsWhitespace(s[Len(s)])
    THEN TrimEnd(SubSeq(s, 1, Len(s) - 1))
    ELSE s

\* String.prototype.trim
Trim(s) == TrimEnd(TrimStart(s))

\* ToString of a scalar, as string concatenation and template literals apply it.
ScalarToString(v) ==
    CASE v.t = "string" -> v.s
      [] v.t = "boolean" -> IF v.b THEN <<"t", "r", "u", "e">>
                                   ELSE <<"f", "a", "l", "s", "e">>
      [] OTHER -> <<>>

RECURSIVE JoinComma(_)
JoinComma(a) ==
    IF a = <<>> THEN <<>>
    ELSE IF Len(a) = 1 THEN ScalarToString(a[1])
    ELSE ScalarToString(a[1]) \o <<",">> \o JoinComma(Tail(a))

\* ToString: an array is the comma-joined strings of its elements.
ToStr(v) == IF v.t = "array" THEN JoinComma(v.a) ELSE ScalarToString(v)

---------------------------------------------------------------------------
(* Parameter lists: configs.params entries {key, value}  *)

\* Array.prototype.find: the index of the first entry with the key, 0 if none.
FindKey(params, key) ==
    IF \E i \in 1..Len(params) : params[i].key = key
    THEN CHOOSE i \in 1..Len(params) :
            /\ params[i].key = key
            /\ \A j \in 1..(i - 1) : params[j].key # key
    ELSE 0

\* params?.find((par) => par.key === key)?.value[0]
FirstValue(params, key) ==
    LET i == FindKey(params, key) IN
    IF i = 0 THEN Undefined
    ELSE IF Len(params[i].value) = 0 THEN Undefined
    ELSE params[i].value[1]

\* params?.find((par) => par.key === key)?.value
WholeValue(params, key) ==
    LET i == FindKey(params, key) IN
    IF i = 0 THEN Undefined ELSE Arr(params[i].value)

\* params?.find((par) => par.key === key)?.value[0]?.trim() || ""
TrimmedParam(params, key) ==
    LET v == FirstValue(params, key) IN
    IF v.t = "undefined" THEN Str(<<>>)
    ELSE IF v.t = "string" THEN OrElse(Str(Trim(v.s)), Str(<<>>))
    ELSE TypeErrorValue

\* params?.find((par) => par.key === key).value[0].trim() || ""
\* (no optional chaining after find: an absent entry or an empty value throws)
TrimmedParamUnchecked(params, key) ==
    LET i == FindKey(params, key) IN
    IF i = 0 THEN TypeErrorValue
    ELSE IF Len(params[i].value) = 0 THEN TypeErrorValue
    ELSE IF params[i].value[1].t = "string"
         THEN OrElse(Str(Trim(params[i].value[1].s)), Str(<<>>))
         ELSE TypeErrorValue

---------------------------------------------------------------------------
(* Errors *)

NoValue == "undefined"

NoError ==
    [name |-> "none", message |-> NoValue, statusCode |-> 0,
     errorCode |-> NoValue, status |-> 0]

\* new AppError(message, statusCode, errorCode): the NormalizedError
\* {message, statusCode, errorCode}
AppError(message, statusCode, errorCode) ==
    [name |-> "AppError", message |-> message, statusCode |-> statusCode,
     errorCode |-> errorCode, status |-> 0]

\* The error the HTTP client rejects with: it carries response.status only
\* (status 0: no response at all, a network error).
AxiosError(status) ==
    [name |-> "AxiosError", message |-> "Request failed", statusCode |-> 0,
     errorCode |-> NoValue, status |-> status]

\* A TypeError raised by the runtime (a property read of null or undefined).
TypeError ==
    [name |-> "TypeError", message |-> "Cannot read properties", statusCode |-> 0,
     errorCode |-> NoValue, status |-> 0]

\* new Error()
PlainError ==
    [name |-> "Error", message |-> "", statusCode |-> 0,
     errorCode |-> NoValue, status |-> 0]

\* The error a failing config store call rejects with.
StoreError ==
    [name |-> "Error", message |-> "config store failure", statusCode |-> 0,
     errorCode |-> NoValue, status |-> 0]

---------------------------------------------------------------------------
(* Completions of a handler *)

NoReturn == [shape |-> "none", message |-> NoValue, configs |-> <<>>, fields |-> {}]

\* A value handed back as the vendor sent it ("ok": well formed, "empty": "").
Data(shape) == [shape |-> shape, message |-> NoValue, configs |-> <<>>, fields |-> {}]

\* A list built by the handler, one entry per element, each with these fields.
Entries(shape, fields) ==
    [shape |-> shape, message |-> NoValue, configs |-> <<>>, fields |-> fields]

\* raised records the error as it was first thrown, whatever a catch block
\* makes of it afterwards.
Return(value, events) ==
    [thrown |-> FALSE, error |-> NoError, raised |-> NoError, value |-> value,
     events |-> events]

\* throw error
Throw(error, events) ==
    [thrown |-> TRUE, error |-> error, raised |-> error, value |-> NoReturn,
     events |-> events]

\* catch (error) { throw new AppError(...) }: another error leaves in its place.
ThrowInstead(out, error) == [out EXCEPT !.error = error]

---------------------------------------------------------------------------
(* The HTTP client *)

NullClient == [live |-> FALSE, auth |-> <<>>]

\* axios.create({... credentials ...}): auth holds the credentials as passed.
NewClient(auth) == [live |-> TRUE, auth |-> auth]

NetworkError == 0

Statuses == {200, 400, 401, 403, 404, 500, NetworkError}

\* What the vendor answers to one call: a status and, with 200, a body that is
\* either well formed or empty (a falsy data).
Answers ==
    {[status |-> 200, body |-> b] : b \in {"ok", "empty"}}
    \cup {[status |-> s, body |-> "none"] : s \in Statuses \ {200}}

HttpEvent(cl, method, route, own, ans) ==
    [ev |-> "http", method |-> method, route |-> route,
     owner |-> ToStr(own), auth |-> [i \in 1..Len(cl.auth) |-> ToStr(cl.auth[i])],
     status |-> ans.status, ok |-> ans.status = 200]

\* A call to the config store and whether it succeeded.
StoreEvent(what, ok) ==
    [ev |-> what, method |-> "", route |-> "", owner |-> <<>>, auth |-> <<>>,
     status |-> 0, ok |-> ok]

\* await this.client.get(url) / post(url): a null client throws a TypeError
\* before any request; otherwise one request is issued and it resolves with the
\* data on 200 and rejects with the transport's error otherwise.
\* The request is issued whether or not there is a client.
Http_noClientCheck(cl, method, route, own, ans, events) ==
    LET evs == Append(events, HttpEvent(cl, method, route, own, ans)) IN
    IF ans.status = 200 THEN Return(Data(ans.body), evs)
    ELSE Throw(AxiosError(ans.status), evs)

Http(cl, method, route, own, ans, events) ==
    IF ~cl.live THEN Throw(TypeError, events)
    ELSE LET evs == Append(events, HttpEvent(cl, method, route, own, ans)) IN
         IF ans.status = 200 THEN Return(Data(ans.body), evs)
         ELSE Throw(AxiosError(ans.status), evs)

HttpCalls(events) == Cardinality({i \in 1..Len(events) : events[i].ev = "http"})

---------------------------------------------------------------------------
(* The config store (ConfigManager): a sequence of config groups *)

\* ConfigManager.getConfig(name): the group of that name, or undefined.
getConfig(st, name) ==
    IF \E i \in 1..Len(st) : st[i].name = name
    THEN [defined |-> TRUE,
          params |-> st[CHOOSE i \in 1..Len(st) : st[i].name = name].params]
    ELSE [defined |-> FALSE, params |-> <<>>]

\* ConfigManager.saveConfigs(newConfigs): the store holds newConfigs afterwards.
saveConfigs(st, newConfigs) == newConfigs

\* configs?.params?.find((par) => par?.key === key)?.value[0]
ConfigFirstValue(configs, key) ==
    IF ~configs.defined THEN Undefined ELSE FirstValue(configs.params, key)

\* configs?.params?.find((par) => par?.key === key)?.value
ConfigWholeValue(configs, key) ==
    IF ~configs.defined THEN Undefined ELSE WholeValue(configs.params, key)

---------------------------------------------------------------------------
(* GithubProvider: lifecycle *)

\* The completion of a lifecycle method together with the fields it leaves.
Lifecycle(out, cl, own, st) == [out |-> out, client |-> cl, owner |-> own, store |-> st]

\* The client is created only when there is none yet.
GH_createClient_reuse(token, cl, ans, events) ==
    IF ~Truthy(token)
    THEN [out |-> Throw(AppError("GitHub authentication failed", 401, "AUTH_FAILED"),
                        events),
          client |-> cl]
    ELSE LET c == IF cl.live THEN cl ELSE NewClient(<<token>>)
             r == Http(c, "GET", "/user", Str(<<>>), ans, events)
         IN  [out |-> r, client |-> c]

GH_createClient(token, cl, ans, events) ==
    IF ~Truthy(token)
    THEN [out |-> Throw(AppError("GitHub authentication failed", 401, "AUTH_FAILED"),
                        events),
          client |-> cl]
    ELSE LET c == NewClient(<<token>>)
             r == Http(c, "GET", "/user", Str(<<>>), ans, events)
         IN  \* catch (error) { throw error; }
             [out |-> r, client |-> c]

\* The catch block of GithubProvider.init. Every statusCode thrown in this file
\* is a number, so error.statusCode === "401" never holds.
GH_initCatch(out) ==
    IF ~out.thrown THEN out
    ELSE IF out.error.status = 401 \/ out.error.statusCode = 401 THEN out
    ELSE ThrowInstead(out, AppError("Failed to initialize GitHub provider", 500, NoValue))

\* init does nothing when the provider has a client already.
GH_init_onlyOnce(st, cl, own, readOk, ans, events) ==
    IF cl.live THEN Lifecycle(Return(NoReturn, events), cl, own, st)
    ELSE
    LET evs == Append(events, StoreEvent("getConfig", readOk)) IN
    IF ~readOk
    THEN Lifecycle(GH_initCatch(Throw(StoreError, evs)), cl, own, st)
    ELSE
    LET configs == getConfig(st, "github_config")
        token == OrElse(ConfigFirstValue(configs, "token"), Str(<<>>))
        newOwner == OrElse(ConfigFirstValue(configs, "owner"), Str(<<>>))
    IN  IF ~Truthy(token)
        THEN Lifecycle(
                 GH_initCatch(Throw(AppError("GitHub token not found in configurations",
                                             401, "AUTH_FAILED"), evs)),
                 cl, newOwner, st)
        ELSE IF ~Truthy(newOwner)
        THEN Lifecycle(
                 GH_initCatch(Throw(AppError(
                     "GitHub owner (account username) not found in configurations",
                     401, "AUTH_FAILED"), evs)),
                 cl, newOwner, st)
        ELSE LET r == GH_createClient(token, cl, ans, evs) IN
             Lifecycle(GH_initCatch(IF r.out.thrown THEN r.out
                                    ELSE Return(NoReturn, r.out.events)),
                       r.client, newOwner, st)

GH_init(st, cl, own, readOk, ans, events) ==
    LET evs == Append(events, StoreEvent("getConfig", readOk)) IN
    IF ~readOk
    THEN Lifecycle(GH_initCatch(Throw(StoreError, evs)), cl, own, st)
    ELSE
    LET configs == getConfig(st, "github_config")
        token == OrElse(ConfigFirstValue(configs, "token"), Str(<<>>))
        newOwner == OrElse(ConfigFirstValue(configs, "owner"), Str(<<>>))
    IN  IF ~Truthy(token)
        THEN Lifecycle(
                 GH_initCatch(Throw(AppError("GitHub token not found in configurations",
                                             401, "AUTH_FAILED"), evs)),
                 cl, newOwner, st)
        ELSE IF ~Truthy(newOwner)
        THEN Lifecycle(
                 GH_initCatch(Throw(AppError(
                     "GitHub owner (account username) not found in configurations",
                     401, "AUTH_FAILED"), evs)),
                 cl, newOwner, st)
        ELSE LET r == GH_createClient(token, cl, ans, evs) IN
             Lifecycle(GH_initCatch(IF r.out.thrown THEN r.out
                                    ELSE Return(NoReturn, r.out.events)),
                       r.client, newOwner, st)

UpdateReturn(newConfigs) ==
    [shape |-> "configUpdate", message |-> "Configuration updated successfully",
     configs |-> newConfigs, fields |-> {}]

\* init is run before the new groups are saved.
GH_actionUpdatePluginConfig_initFirst(newConfigs, st, cl, own, saveOk, readOk, ans) ==
    LET failure(out) ==
            ThrowInstead(out, AppError("Failed to update plugin configuration", 500,
                                       "CONFIG_UPDATE_FAILED"))
        i == GH_init(st, cl, own, readOk, ans, <<>>)
        evs == Append(i.out.events, StoreEvent("saveConfigs", saveOk))
    IN  IF i.out.thrown THEN Lifecycle(failure(i.out), i.client, i.owner, i.store)
        ELSE IF ~saveOk
        THEN Lifecycle(failure(Throw(StoreError, evs)), i.client, i.owner, st)
        ELSE Lifecycle(Return(UpdateReturn(newConfigs), evs), i.client, i.owner,
                       saveConfigs(st, newConfigs))

\* The catch lets a 401 through, as the catch of init does.
GH_actionUpdatePluginConfig_rethrow401(newConfigs, st, cl, own, saveOk, readOk, ans) ==
    LET evs == <<StoreEvent("saveConfigs", saveOk)>>
        failure(out) ==
            IF out.error.status = 401 \/ out.error.statusCode = 401 THEN out
            ELSE ThrowInstead(out, AppError("Failed to update plugin configuration",
                                            500, "CONFIG_UPDATE_FAILED"))
    IN  IF ~saveOk THEN Lifecycle(failure(Throw(StoreError, evs)), cl, own, st)
        ELSE LET i == GH_init(saveConfigs(st, newConfigs), cl, own, readOk, ans, evs) IN
             IF i.out.thrown
             THEN Lifecycle(failure(i.out), i.client, i.owner, i.store)
             ELSE Lifecycle(Return(UpdateReturn(newConfigs), i.out.events),
                            i.client, i.owner, i.store)

\* When init fails the groups held before are saved back.
GH_actionUpdatePluginConfig_rollback(newConfigs, st, cl, own, saveOk, readOk, ans) ==
    LET evs == <<StoreEvent("saveConfigs", saveOk)>>
        failure(out) ==
            ThrowInstead(out, AppError("Failed to update plugin configuration", 500,
                                       "CONFIG_UPDATE_FAILED"))
    IN  IF ~saveOk THEN Lifecycle(failure(Throw(StoreError, evs)), cl, own, st)
        ELSE LET i == GH_init(saveConfigs(st, newConfigs), cl, own, readOk, ans, evs) IN
             IF i.out.thrown
             THEN Lifecycle(failure([i.out EXCEPT !.events =
                                        Append(@, StoreEvent("saveConfigs", TRUE))]),
                            i.client, i.owner, saveConfigs(i.store, st))
             ELSE Lifecycle(Return(UpdateReturn(newConfigs), i.out.events),
                            i.client, i.owner, i.store)

GH_actionUpdatePluginConfig(newConfigs, st, cl, own, saveOk, readOk, ans) ==
    LET evs == <<StoreEvent("saveConfigs", saveOk)>>
        failure(out) ==
            ThrowInstead(out, AppError("Failed to update plugin configuration", 500,
                                       "CONFIG_UPDATE_FAILED"))
    IN  IF ~saveOk THEN Lifecycle(failure(Throw(StoreError, evs)), cl, own, st)
        ELSE LET i == GH_init(saveConfigs(st, newConfigs), cl, own, readOk, ans, evs) IN
             IF i.out.thrown
             THEN Lifecycle(failure(i.out), i.client, i.owner, i.store)
             ELSE Lifecycle(Return(UpdateReturn(newConfigs), i.out.events),
                            i.client, i.owner, i.store)

---------------------------------------------------------------------------
(* BitbucketProvider: lifecycle *)

BB_createClient(username, appPassword, cl, ans, events) ==
    LET c == NewClient(<<username, appPassword>>)
        r == Http(c, "GET", "/user", Str(<<>>), ans, events)
    IN  IF r.thrown
        THEN [out |-> ThrowInstead(r, AppError("Bitbucket authentication failed", 401,
                                               "AUTH_FAILED")),
              client |-> c]
        ELSE [out |-> r, client |-> c]

BB_initCatch(out) ==
    IF ~out.thrown THEN out
    ELSE IF out.error.status = 401 \/ out.error.statusCode = 401 THEN out
    ELSE ThrowInstead(out, AppError("Failed to initialize Bitbucket provider", 500, NoValue))

\* username, appPassword and owner are read as the entry's whole value (the
\* sequence), not its first element.
BB_init(st, cl, own, readOk, ans, events) ==
    LET evs == Append(events, StoreEvent("getConfig", readOk)) IN
    IF ~readOk
    THEN Lifecycle(BB_initCatch(Throw(StoreError, evs)), cl, own, st)
    ELSE
    LET configs == getConfig(st, "bitbucket_config")
        username == OrElse(ConfigWholeValue(configs, "username"), Str(<<>>))
        appPassword == OrElse(ConfigWholeValue(configs, "appPassword"), Str(<<>>))
        newOwner == OrElse(ConfigWholeValue(configs, "owner"), Str(<<>>))
    IN  IF ~Truthy(username) \/ ~Truthy(appPassword)
        THEN Lifecycle(
                 BB_initCatch(Throw(AppError("Bitbucket credentials not found", 401,
                                             "AUTH_FAILED"), evs)),
                 cl, newOwner, st)
        ELSE LET r == BB_createClient(username, appPassword, cl, ans, evs) IN
             Lifecycle(BB_initCatch(IF r.out.thrown THEN r.out
                                    ELSE Return(NoReturn, r.out.events)),
                       r.client, newOwner, st)

---------------------------------------------------------------------------
(* GithubProvider: domain actions *)

\* Whether evaluating one of the extracted parameters threw.
Threw(values) == \E i \in 1..Len(values) : values[i].t = "TypeError"

MissingParams(message) == AppError(message, 400, "MISSING_REQUIRED_PARAMS")

\* The catch block every GithubProvider action ends with: 404 is mapped to the
\* action's not-found error, 400 is thrown again as it is, the rest becomes 500.
GhCatch(out, message404, code404, message500, code500) ==
    IF ~out.thrown THEN out
    ELSE IF out.error.status = 404 \/ out.error.statusCode = 404
    THEN ThrowInstead(out, AppError(message404, 404, code404))
    ELSE IF out.error.status = 400 \/ out.error.statusCode = 400
    THEN out
    ELSE ThrowInstead(out, AppError(message500, 500, code500))

GH_actionListRepos(params, cl, own, ans) ==
    GhCatch(Http(cl, "GET", "/user/repos", Str(<<>>), ans, <<>>),
            "Resources not found", "RESOURCE_NOT_FOUND",
            "Failed to fetch repositories", "FETCH_REPOS_FAILED")

GH_actionGetRepo(params, cl, own, ans) ==
    LET repoName == TrimmedParam(params, "repoName") IN
    GhCatch(IF Threw(<<repoName>>) THEN Throw(TypeError, <<>>)
            ELSE IF ~Truthy(repoName)
            THEN Throw(MissingParams("Repository name is required"), <<>>)
            ELSE Http(cl, "GET", "/repos/{owner}/{repoName}", own, ans, <<>>),
            "Repository not found", "REPOSITORY_NOT_FOUND",
            "Failed to fetch repository", "FETCH_REPO_FAILED")

GH_actionListRepoContents(params, cl, own, ans) ==
    LET repoName == TrimmedParam(params, "repoName")
        path == TrimmedParam(params, "path")
        ref == TrimmedParam(params, "ref")
    IN
    GhCatch(IF Threw(<<repoName, path, ref>>) THEN Throw(TypeError, <<>>)
            ELSE IF ~Truthy(repoName)
            THEN Throw(MissingParams("Repository name is required"), <<>>)
            ELSE Http(cl, "GET", "/repos/{owner}/{repoName}/contents/{path}",
                      own, ans, <<>>),
            "Repository path or reference not found", "RESOURCE_NOT_FOUND",
            "Failed to fetch repository contents", "FETCH_CONTENTS_FAILED")

GH_actionGetRepoFileContent(params, cl, own, ans) ==
    LET repoName == TrimmedParam(params, "repoName")
        path == TrimmedParam(params, "path")
        ref == TrimmedParam(params, "ref")
    IN
    GhCatch(IF Threw(<<repoName, path, ref>>) THEN Throw(TypeError, <<>>)
            ELSE IF ~Truthy(repoName) \/ ~Truthy(path)
            THEN Throw(MissingParams("Repository name and file path are required"),
                       <<>>)
            ELSE Http(cl, "GET", "/repos/{owner}/{repoName}/contents/{path}",
                      own, ans, <<>>),
            "File not found or inaccessible", "RESOURCE_NOT_FOUND",
            "Failed to fetch file content", "FETCH_CONTENT_FAILED")

GH_actionListBranches(params, cl, own, ans) ==
    LET repoName == TrimmedParam(params, "repoName") IN
    GhCatch(IF Threw(<<repoName>>) THEN Throw(TypeError, <<>>)
            ELSE IF ~Truthy(repoName)
            THEN Throw(MissingParams("Repository name is required"), <<>>)
            ELSE Http(cl, "GET", "/repos/{owner}/{repoName}/branches", own, ans, <<>>),
            "Repository not found", "REPOSITORY_NOT_FOUND",
            "Failed to fetch branches", "FETCH_BRANCHES_FAILED")

GH_actionListBranchCommits(params, cl, own, ans) ==
    LET repoName == TrimmedParam(params, "repoName")
        branch == TrimmedParam(params, "branch")
    IN
    GhCatch(IF Threw(<<repoName, branch>>) THEN Throw(TypeError, <<>>)
            ELSE IF ~Truthy(repoName)
            THEN Throw(MissingParams("Repository name is required"), <<>>)
            ELSE Http(cl, "GET", "/repos/{owner}/{repoName}/commits", own, ans, <<>>),
            "Branch or repository not found", "RESOURCE_NOT_FOUND",
            "Failed to fetch commits", "FETCH_COMMITS_FAILED")

SummaryFields == {"filename", "status", "additions", "deletions", "changes"}

\* The fields of one element of data.files as the vendor sends it.
FileFields == SummaryFields \cup {"sha", "patch", "blob_url", "raw_url", "contents_url"}

\* repoName and commitSha are read without optional chaining.
GH_actionListCommitModifications(params, cl, own, ans) ==
    LET repoName == TrimmedParamUnchecked(params, "repoName")
        commitSha == TrimmedParamUnchecked(params, "commitSha")
        includeContent == OrElse(FirstValue(params, "includeContent"), Bool(FALSE))
    IN
    GhCatch(IF Threw(<<repoName, commitSha>>) THEN Throw(TypeError, <<>>)
            ELSE IF ~Truthy(repoName) \/ ~Truthy(commitSha)
            THEN Throw(MissingParams("Repository name and commit SHA are required"),
                       <<>>)
            ELSE LET r == Http(cl, "GET", "/repos/{owner}/{repoName}/commits/{commitSha}",
                               own, ans, <<>>) IN
                 IF r.thrown THEN r
                 \* data.files of an empty body is undefined: map and the
                 \* return of data.files differ there
                 ELSE IF ~Truthy(includeContent)
                 THEN IF r.value.shape = "empty" THEN Throw(TypeError, r.events)
                      ELSE Return(Entries("files", SummaryFields), r.events)
                 ELSE IF r.value.shape = "empty" THEN Return(Data("undefined"), r.events)
                      ELSE Return(Entries("files", FileFields), r.events),
            "Commit or repository not found", "RESOURCE_NOT_FOUND",
            "Failed to fetch commit modifications", "FETCH_MODIFICATIONS_FAILED")

GH_actionGetCommitDetails(params, cl, own, ans) ==
    LET repoName == TrimmedParam(params, "repoName")
        commitSha == TrimmedParam(params, "commitSha")
    IN
    GhCatch(IF Threw(<<repoName, commitSha>>) THEN Throw(TypeError, <<>>)
            ELSE IF ~Truthy(repoName) \/ ~Truthy(commitSha)
            THEN Throw(MissingParams("Repository name and commit SHA are required"),
                       <<>>)
            ELSE LET r == Http(cl, "GET", "/repos/{owner}/{repoName}/commits/{commitSha}",
                               own, ans, <<>>) IN
                 IF r.thrown THEN r
                 \* data.commit.message of an empty body reads undefined.message
                 ELSE IF r.value.shape = "empty" THEN Throw(TypeError, r.events)
                 ELSE Return(Entries("commitDetails",
                                     {"sha", "author", "committer", "commit", "stats",
                                      "files", "parents", "html_url"}), r.events),
            "Commit or repository not found", "RESOURCE_NOT_FOUND",
            "Failed to fetch commit details", "FETCH_COMMIT_DETAILS_FAILED")

GH_actionCommitsDiff(params, cl, own, ans) ==
    LET repoName == TrimmedParam(params, "repoName")
        baseCommit == TrimmedParam(params, "baseCommit")
        headCommit == TrimmedParam(params, "headCommit")
        filePath == TrimmedParam(params, "filePath")
    IN
    GhCatch(IF Threw(<<repoName, baseCommit, headCommit, filePath>>)
            THEN Throw(TypeError, <<>>)
            ELSE IF ~Truthy(repoName) \/ ~Truthy(baseCommit) \/ ~Truthy(headCommit)
            THEN Throw(MissingParams(
                     "Repository name, base commit and head commit are required"), <<>>)
            ELSE Http(cl, "GET",
                      "/repos/{owner}/{repoName}/compare/{baseCommit}...{headCommit}",
                      own, ans, <<>>),
            "Repository or commits not found", "RESOURCE_NOT_FOUND",
            "Failed to compare commits", "COMPARE_COMMITS_FAILED")

GH_actionCommentPrs(params, cl, own, ans) ==
    LET repoName == TrimmedParam(params, "repoName")
        prNumber == TrimmedParam(params, "prNumber")
        comment == TrimmedParam(params, "comment")
    IN
    GhCatch(IF Threw(<<repoName, prNumber, comment>>) THEN Throw(TypeError, <<>>)
            ELSE IF ~Truthy(repoName) \/ ~Truthy(prNumber) \/ ~Truthy(comment)
            THEN Throw(MissingParams(
                     "Repository name, PR number and comment text are required"), <<>>)
            ELSE Http(cl, "POST", "/repos/{owner}/{repoName}/issues/{prNumber}/comments",
                      own, ans, <<>>),
            "Pull request or repository not found", "RESOURCE_NOT_FOUND",
            "Failed to create PR comment", "CREATE_COMMENT_FAILED")

GH_actionListPipelines(params, cl, own, ans) ==
    LET repoName == TrimmedParam(params, "repoName") IN
    GhCatch(IF Threw(<<repoName>>) THEN Throw(TypeError, <<>>)
            ELSE IF ~Truthy(repoName)
            THEN Throw(MissingParams("Repository name is required"), <<>>)
            ELSE Http(cl, "GET", "/repos/{owner}/{repoName}/methods/workflows",
                      own, ans, <<>>),
            "Repository not found", "RESOURCE_NOT_FOUND",
            "Failed to fetch pipelines", "FETCH_PIPELINES_FAILED")

GH_actionListDeployments(params, cl, own, ans) ==
    LET repoName == TrimmedParam(params, "repoName") IN
    GhCatch(IF Threw(<<repoName>>) THEN Throw(TypeError, <<>>)
            ELSE IF ~Truthy(repoName)
            THEN Throw(MissingParams("Repository name is required"), <<>>)
            ELSE Http(cl, "GET", "/repos/{owner}/{repoName}/deployments", own, ans, <<>>),
            "Repository not found", "RESOURCE_NOT_FOUND",
            "Failed to fetch deployments", "FETCH_DEPLOYMENTS_FAILED")

---------------------------------------------------------------------------
(* BitbucketProvider: domain actions *)

\* catch: everything becomes the action's 500.
BbCatchAll(out, message500, code500) ==
    IF ~out.thrown THEN out
    ELSE ThrowInstead(out, AppError(message500, 500, code500))

\* catch: 400 is thrown again as it is, the rest becomes the action's 500.
\* (error.statusCode === "400" never holds: every statusCode is a number.)
BbCatch400(out, message500, code500) ==
    IF ~out.thrown THEN out
    ELSE IF out.error.status = 400 \/ out.error.statusCode = 400 THEN out
    ELSE ThrowInstead(out, AppError(message500, 500, code500))

\* return data.values || []
ValuesOrEmpty(r) ==
    IF r.thrown THEN r
    ELSE IF r.value.shape = "empty" THEN Return(Entries("list", {}), r.events)
    ELSE Return(Data("values"), r.events)

\* return data.values
ValuesOf(r) ==
    IF r.thrown THEN r
    ELSE IF r.value.shape = "empty" THEN Return(Data("undefined"), r.events)
    ELSE Return(Data("values"), r.events)

BB_actionListBitbucketWorkspaces(params, cl, own, ans) ==
    BbCatch400(ValuesOrEmpty(Http(cl, "GET", "/workspaces", Str(<<>>), ans, <<>>)),
               "Failed to fetch workspaces", "FETCH_WORKSPACES_FAILED")

\* Defined twice in the class with the same behaviour; the later definition is
\* the method.
BB_actionListRepos(params, cl, own, ans) ==
    BbCatchAll(ValuesOf(Http(cl, "GET", "/repositories/{owner}", own, ans, <<>>)),
               "Failed to fetch repositories", "FETCH_REPOS_FAILED")

BB_actionGetRepo(params, cl, own, ans) ==
    LET repoName == TrimmedParam(params, "repoName") IN
    BbCatchAll(IF Threw(<<repoName>>) THEN Throw(TypeError, <<>>)
               ELSE IF ~Truthy(repoName) THEN Throw(PlainError, <<>>)
               ELSE Http(cl, "GET", "/repositories/{owner}/{repoName}", own, ans, <<>>),
               "Failed to fetch repository", "FETCH_REPO_FAILED")

\* The ref parameter is the commit and is required.
BB_actionListRepoContents(params, cl, own, ans) ==
    LET repoName == TrimmedParam(params, "repoName")
        commit == TrimmedParam(params, "ref")
    IN
    BbCatch400(IF Threw(<<repoName, commit>>) THEN Throw(TypeError, <<>>)
               ELSE IF ~Truthy(repoName) \/ ~Truthy(commit)
               THEN Throw(MissingParams("Repository name and commit are required"), <<>>)
               ELSE LET r == Http(cl, "GET", "/repositories/{owner}/{repoName}/src/{commit}/",
                                  own, ans, <<>>) IN
                    \* return data.values || data
                    IF r.thrown THEN r ELSE Return(Data(r.value.shape), r.events),
               "Failed to fetch repository contents", "FETCH_CONTENTS_FAILED")

\* ref defaults to "master"; the 400 carries no errorCode.
BB_actionGetRepoFileContent(params, cl, own, ans) ==
    LET repoName == TrimmedParam(params, "repoName")
        path == TrimmedParam(params, "path")
        refRead == FirstValue(params, "ref")
        ref == IF refRead.t = "undefined" THEN Str(<<"m", "a", "s", "t", "e", "r">>)
               ELSE IF refRead.t = "string"
               THEN OrElse(Str(Trim(refRead.s)), Str(<<"m", "a", "s", "t", "e", "r">>))
               ELSE TypeErrorValue
    IN
    BbCatch400(IF Threw(<<repoName, path, ref>>) THEN Throw(TypeError, <<>>)
               ELSE IF ~Truthy(repoName) \/ ~Truthy(ref) \/ ~Truthy(path)
               THEN Throw(AppError(
                   "In order to fetch file/directory contents from Bitbucket please fill all required fields.",
                   400, NoValue), <<>>)
               ELSE Http(cl, "GET", "/repositories/{owner}/{repoName}/src/{ref}/{path}",
                         own, ans, <<>>),
               "Failed to fetch file content", "FETCH_CONTENT_FAILED")

BB_actionListRepoBranches(params, cl, own, ans) ==
    LET repoName == TrimmedParam(params, "repoName") IN
    BbCatch400(IF Threw(<<repoName>>) THEN Throw(TypeError, <<>>)
               ELSE IF ~Truthy(repoName)
               THEN Throw(AppError("Please required field (repository name)", 400,
                                   NoValue), <<>>)
               ELSE ValuesOf(Http(cl, "GET",
                                  "/repositories/{owner}/{repoName}/refs/branches",
                                  own, ans, <<>>)),
               "Failed to fetch branches", "FETCH_BRANCHES_FAILED")

BB_actionListBranchCommits(params, cl, own, ans) ==
    LET repoName == TrimmedParam(params, "repoName")
        branch == TrimmedParam(params, "branch")
    IN
    BbCatchAll(IF Threw(<<repoName, branch>>) THEN Throw(TypeError, <<>>)
               ELSE IF ~Truthy(repoName) THEN Throw(PlainError, <<>>)
               ELSE ValuesOf(Http(cl, "GET",
                                  "/repositories/{owner}/{repoName}/commits/{branch}",
                                  own, ans, <<>>)),
               "Failed to fetch commits", "FETCH_COMMITS_FAILED")

\* The fields of one element of the diffstat's values as the vendor sends it.
DiffstatFields == {"type", "status", "lines_added", "lines_removed", "old", "new"}

\* The diff call is made whether or not the diffstat call was rejected.
BB_actionListCommitModifications_bothCalls(params, cl, own, ans1, ans2) ==
    LET repoName == TrimmedParam(params, "repoName")
        commitSha == TrimmedParam(params, "commitSha")
        includeContent == OrElse(FirstValue(params, "includeContent"), Bool(FALSE))
    IN
    BbCatch400(
        IF Threw(<<repoName, commitSha>>) THEN Throw(TypeError, <<>>)
        ELSE IF ~Truthy(repoName) \/ ~Truthy(commitSha)
        THEN Throw(MissingParams("Repository name and commit SHA are required"), <<>>)
        ELSE LET stats == Http(cl, "GET",
                               "/repositories/{owner}/{repoName}/diffstat/{commitSha}",
                               own, ans1, <<>>)
                 content ==
                     IF Truthy(includeContent)
                     THEN Http(cl, "GET",
                               "/repositories/{owner}/{repoName}/diff/{commitSha}",
                               own, ans2, stats.events)
                     ELSE Return(NoReturn, stats.events)
             IN  IF stats.thrown THEN [stats EXCEPT !.events = content.events]
                 ELSE IF content.thrown THEN content
                 ELSE IF stats.value.shape = "empty"
                 THEN Throw(TypeError, content.events)
                 ELSE Return(Entries("modifications",
                                     DiffstatFields \cup
                                     {"diffContent", "commitHash", "repository"}),
                             content.events),
        "Failed to fetch commit modifications", "FETCH_MODIFICATIONS_FAILED")

\* One diffstat call, then the diff call when content is asked for.
BB_actionListCommitModifications(params, cl, own, ans1, ans2) ==
    LET repoName == TrimmedParam(params, "repoName")
        commitSha == TrimmedParam(params, "commitSha")
        includeContent == OrElse(FirstValue(params, "includeContent"), Bool(FALSE))
    IN
    BbCatch400(
        IF Threw(<<repoName, commitSha>>) THEN Throw(TypeError, <<>>)
        ELSE IF ~Truthy(repoName) \/ ~Truthy(commitSha)
        THEN Throw(MissingParams("Repository name and commit SHA are required"), <<>>)
        ELSE LET stats == Http(cl, "GET",
                               "/repositories/{owner}/{repoName}/diffstat/{commitSha}",
                               own, ans1, <<>>) IN
             IF stats.thrown THEN stats
             ELSE LET content ==
                          IF Truthy(includeContent)
                          THEN Http(cl, "GET",
                                    "/repositories/{owner}/{repoName}/diff/{commitSha}",
                                    own, ans2, stats.events)
                          ELSE Return(NoReturn, stats.events)
                  IN  IF content.thrown THEN content
                      \* statsData.values.map of an empty body reads undefined.map
                      ELSE IF stats.value.shape = "empty"
                      THEN Throw(TypeError, content.events)
                      ELSE Return(Entries("modifications",
                                          DiffstatFields \cup
                                          {"diffContent", "commitHash", "repository"}),
                                  content.events),
        "Failed to fetch commit modifications", "FETCH_MODIFICATIONS_FAILED")

\* The repository is fetched first, then the commit; the catch maps 404 and
\* turns everything else, thrown 400s included, into 500.
BB_actionGetCommitDetails(params, cl, own, ans1, ans2) ==
    LET repoName == TrimmedParam(params, "repoName")
        commitSha == TrimmedParam(params, "commitSha")
        body ==
            IF Threw(<<repoName, commitSha>>) THEN Throw(TypeError, <<>>)
            ELSE IF ~Truthy(repoName) \/ ~Truthy(commitSha)
            THEN Throw(MissingParams("Repository name and commit SHA are required"),
                       <<>>)
            ELSE LET repoCheck == Http(cl, "GET", "/repositories/{owner}/{repoName}",
                                       own, ans1, <<>>) IN
                 IF repoCheck.thrown THEN repoCheck
                 ELSE IF repoCheck.value.shape = "empty"
                 THEN Throw(AppError("Repository not found or access denied", 404,
                                     "REPOSITORY_NOT_FOUND"), repoCheck.events)
                 ELSE LET r == Http(cl, "GET",
                                    "/repositories/{owner}/{repoName}/commit/{commitSha}",
                                    own, ans2, repoCheck.events) IN
                      IF r.thrown THEN r
                      ELSE Return(Entries("commitDetails",
                                          {"hash", "author", "message", "date",
                                           "parents", "repository"}), r.events)
    IN
    IF ~body.thrown THEN body
    ELSE IF body.error.status = 404 \/ body.error.statusCode = 404
    THEN ThrowInstead(body, AppError("Repository or commit not found", 404, "RESOURCE_NOT_FOUND"))
    ELSE ThrowInstead(body, AppError("Failed to fetch commit details", 500,
                        "FETCH_COMMIT_DETAILS_FAILED"))

BB_actionCommitsDiff(params, cl, own, ans) ==
    LET repoName == TrimmedParam(params, "repoName")
        baseCommit == TrimmedParam(params, "baseCommit")
        headCommit == TrimmedParam(params, "headCommit")
    IN
    BbCatch400(IF Threw(<<repoName, baseCommit, headCommit>>) THEN Throw(TypeError, <<>>)
               ELSE IF ~Truthy(repoName) \/ ~Truthy(baseCommit) \/ ~Truthy(headCommit)
               THEN Throw(MissingParams(
                        "Repository name, base commit and head commit are required"),
                        <<>>)
               ELSE LET r == Http(cl, "GET",
                        "/repositories/{owner}/{repoName}/diff/{baseCommit}..{headCommit}",
                        own, ans, <<>>) IN
                    \* return data || {}
                    IF r.thrown THEN r
                    ELSE IF r.value.shape = "empty"
                    THEN Return(Entries("object", {}), r.events)
                    ELSE r,
               "Failed to compare commits", "COMPARE_COMMITS_FAILED")

BB_actionCommentPRs(params, cl, own, ans) ==
    LET repoName == TrimmedParam(params, "repoName")
        prNumber == TrimmedParam(params, "prNumber")
        comment == TrimmedParam(params, "comment")
    IN
    BbCatch400(IF Threw(<<repoName, prNumber, comment>>) THEN Throw(TypeError, <<>>)
               ELSE IF ~Truthy(repoName) \/ ~Truthy(prNumber) \/ ~Truthy(comment)
               THEN Throw(MissingParams(
                        "Repository name, PR number and comment text are required"),
                        <<>>)
               ELSE Http(cl, "POST",
                    "/repositories/{owner}/{repoName}/pullrequests/{prNumber}/comments",
                    own, ans, <<>>),
               "Failed to add comment to pull request", "COMMENT_PR_FAILED")

BB_actionListPipelines(params, cl, own, ans) ==
    LET repoName == TrimmedParam(params, "repoName") IN
    BbCatch400(IF Threw(<<repoName>>) THEN Throw(TypeError, <<>>)
               ELSE IF ~Truthy(repoName)
               THEN Throw(MissingParams("Repository name is required"), <<>>)
               ELSE ValuesOrEmpty(Http(cl, "GET",
                                       "/repositories/{owner}/{repoName}/pipelines/",
                                       own, ans, <<>>)),
               "Failed to fetch pipelines", "FETCH_PIPELINES_FAILED")

BB_actionListDeployments(params, cl, own, ans) ==
    LET repoName == TrimmedParam(params, "repoName") IN
    BbCatch400(IF Threw(<<repoName>>) THEN Throw(TypeError, <<>>)
               ELSE IF ~Truthy(repoName)
               THEN Throw(MissingParams("Repository name is required"), <<>>)
               ELSE ValuesOrEmpty(Http(cl, "GET",
                                       "/repositories/{owner}/{repoName}/deployments",
                                       own, ans, <<>>)),
               "Failed to fetch deployments", "FETCH_DEPLOYMENTS_FAILED")

---------------------------------------------------------------------------
(* Input universes *)

Providers == {"github", "bitbucket"}

GroupName(p) == IF p = "github" THEN "github_config" ELSE "bitbucket_config"

\* Every list that holds, in the order of keys, at most one entry per key, the
\* value of a key drawn from opts[key].
RECURSIVE ParamLists(_, _)
ParamLists(keys, opts) ==
    IF keys = <<>> THEN {<<>>}
    ELSE LET rest == ParamLists(Tail(keys), opts) IN
         rest \cup {<<[key |-> Head(keys), value |-> v]>> \o r :
                       v \in opts[Head(keys)], r \in rest}

\* The values an entry can hold when it holds nothing usable.
MissingValues == {<<>>, <<Str(<<>>)>>}

\* How many distinct secrets (tokens, app passwords) and owners configurations
\* are drawn from.
NumSecrets == 2

NumOwners == 2

\* The string of n copies of the character c.
Repeat(c, n) == [i \in 1..n |-> c]

TokenValues == {<<Str(<<"t">> \o Repeat("k", n))>> : n \in 1..NumSecrets}

OwnerValues == {<<Str(<<"o">> \o Repeat("w", n))>> : n \in 1..NumOwners}

UsernameValues == {<<Str(<<"u">>)>>}

PasswordValues == {<<Str(<<"p">> \o Repeat("w", n))>> : n \in 1..NumSecrets}

CredentialKeys(p) ==
    IF p = "github" THEN <<"owner", "token">>
    ELSE <<"owner", "username", "appPassword">>

CredentialOptions ==
    [k \in {"owner", "token", "username", "appPassword"} |->
        MissingValues \cup
        (CASE k = "owner" -> OwnerValues
           [] k = "token" -> TokenValues
           [] k = "username" -> UsernameValues
           [] k = "appPassword" -> PasswordValues)]

\* Every content of the config store for a provider: no group, or its group with
\* any of the credential entries.
AllStores(p) ==
    {<<>>} \cup {<<[name |-> GroupName(p), params |-> ps]>> :
                    ps \in ParamLists(CredentialKeys(p), CredentialOptions)}

\* The credentials the vendor accepts, as the strings it receives them.
ValidAuth(p) ==
    IF p = "github" THEN {<<v[1].s>> : v \in TokenValues}
    ELSE {<<u[1].s, w[1].s>> : u \in UsernameValues, w \in PasswordValues}

\* The vendor answers 200 only to a request that carries credentials it accepts.
VendorConsistent(p, events) ==
    \A i \in 1..Len(events) :
        (events[i].ev = "http" /\ events[i].status = 200)
            => events[i].auth \in ValidAuth(p)

---------------------------------------------------------------------------
(* The state machine *)

Idle ==
    [op |-> "idle", params |-> <<>>, configs |-> <<>>, thrown |-> FALSE,
     error |-> NoError, raised |-> NoError, value |-> NoReturn, events |-> <<>>,
     pre |-> [client |-> NullClient, owner |-> Str(<<>>), store |-> <<>>]]

NoInit == [ok |-> FALSE, store |-> <<>>]

\* No call has been delivered to its caller yet.
NoCall == [op |-> "idle", thrown |-> FALSE, auth401 |-> FALSE, after401 |-> FALSE]

\* The record of a completed call: what was invoked, with what, how it ended,
\* the external calls it made, and the provider's fields before it.
Completed(op, params, configs, out) ==
    [op |-> op, params |-> params, configs |-> configs, thrown |-> out.thrown,
     error |-> out.error, raised |-> out.raised, value |-> out.value,
     events |-> out.events,
     pre |-> [client |-> client, owner |-> owner, store |-> store]]

\* Whether the call re-created the client and what the credential check said.
CheckedBy(events) ==
    {events[i].status : i \in {j \in 1..Len(events) :
        events[j].ev = "http" /\ events[j].route = "/user"}}

\* constructor(): client = null, owner = ""; the store holds whatever was persisted.
Init ==
    /\ provider \in Providers
    /\ client = NullClient
    /\ owner = Str(<<>>)
    /\ store \in AllStores(provider)
    /\ verified = FALSE
    /\ last = Idle
    /\ prevInit = NoInit
    /\ inits = <<>>
    /\ prevCall = NoCall

ApplyLifecycle(op, configs, r) ==
    /\ VendorConsistent(provider, r.out.events)
    /\ client' = r.client
    /\ owner' = r.owner
    /\ store' = r.store
    /\ verified' = IF CheckedBy(r.out.events) = {} THEN verified
                   ELSE CheckedBy(r.out.events) = {200}
    /\ last' = Completed(op, <<>>, configs, r.out)
    /\ UNCHANGED <<provider, prevInit, inits, prevCall>>

GhInit ==
    /\ provider = "github"
    /\ last = Idle
    /\ \E readOk \in BOOLEAN, ans \in Answers :
          ApplyLifecycle("init", <<>>, GH_init(store, client, owner, readOk, ans, <<>>))

BbInit ==
    /\ provider = "bitbucket"
    /\ last = Idle
    /\ \E readOk \in BOOLEAN, ans \in Answers :
          ApplyLifecycle("init", <<>>, BB_init(store, client, owner, readOk, ans, <<>>))

GhUpdatePluginConfig(universe) ==
    /\ provider = "github"
    /\ last = Idle
    /\ \E newConfigs \in universe, saveOk \in BOOLEAN, readOk \in BOOLEAN,
          ans \in Answers :
          ApplyLifecycle("actionUpdatePluginConfig", newConfigs,
              GH_actionUpdatePluginConfig(newConfigs, store, client, owner,
                                          saveOk, readOk, ans))

\* The persisted configuration is replaced wholesale from outside the provider.
ConfigChange(universe) ==
    /\ last = Idle
    /\ \E newConfigs \in universe :
          /\ newConfigs # store
          /\ store' = newConfigs
    /\ UNCHANGED <<provider, client, owner, verified, last, prevInit, inits, prevCall>>

\* The caller receives the completion of the call it awaited.
Deliver ==
    /\ last # Idle
    /\ prevInit' = IF last.op = "init" /\ ~last.thrown
                   THEN [ok |-> TRUE, store |-> store]
                   ELSE NoInit
    /\ last' = Idle
    /\ UNCHANGED <<provider, client, owner, store, verified, inits, prevCall>>

---------------------------------------------------------------------------
(* Domain actions as steps of the state machine *)

\* The longest whitespace-only string a caller passes.
MaxBlanks == 1

\* What a caller can put under a key an action requires.
RequiredValues ==
    MissingValues \cup {<<Str(Repeat(" ", n))>> : n \in 1..MaxBlanks}
                  \cup {<<Str(<<"r">>)>>}

\* What a caller can put under a key an action does not require.
OptionalValues(k) ==
    IF k = "includeContent"
    THEN {<<Bool(FALSE)>>, <<Bool(TRUE)>>, <<Str(<<"f", "a", "l", "s", "e">>)>>}
    ELSE {<<Str(<<"x">>)>>}

\* The configs.params a caller can pass to an action that reads these keys.
Inputs(required, optional) ==
    {r \o o :
        r \in ParamLists(required,
                         [k \in {required[i] : i \in 1..Len(required)} |->
                             RequiredValues]),
        o \in ParamLists(optional,
                         [k \in {optional[i] : i \in 1..Len(optional)} |->
                             OptionalValues(k)])}

DomainCall(op, params, out) ==
    /\ VendorConsistent(provider, out.events)
    /\ last' = Completed(op, params, <<>>, out)
    /\ UNCHANGED <<provider, client, owner, store, verified, prevInit, inits,
                   prevCall>>

GhActionListRepos ==
    /\ provider = "github"
    /\ last = Idle
    /\ \E params \in Inputs(<<>>, <<"visibility", "sort", "page">>), ans \in Answers :
          DomainCall("actionListRepos", params,
                     GH_actionListRepos(params, client, owner, ans))

GhActionGetRepo ==
    /\ provider = "github"
    /\ last = Idle
    /\ \E params \in Inputs(<<"repoName">>, <<>>), ans \in Answers :
          DomainCall("actionGetRepo", params,
                     GH_actionGetRepo(params, client, owner, ans))

GhActionListRepoContents ==
    /\ provider = "github"
    /\ last = Idle
    /\ \E params \in Inputs(<<"repoName">>, <<"path", "ref">>), ans \in Answers :
          DomainCall("actionListRepoContents", params,
                     GH_actionListRepoContents(params, client, owner, ans))

GhActionGetRepoFileContent ==
    /\ provider = "github"
    /\ last = Idle
    /\ \E params \in Inputs(<<"repoName", "path">>, <<"ref">>), ans \in Answers :
          DomainCall("actionGetRepoFileContent", params,
                     GH_actionGetRepoFileContent(params, client, owner, ans))

GhActionListBranches ==
    /\ provider = "github"
    /\ last = Idle
    /\ \E params \in Inputs(<<"repoName">>, <<>>), ans \in Answers :
          DomainCall("actionListBranches", params,
                     GH_actionListBranches(params, client, owner, ans))

GhActionListBranchCommits ==
    /\ provider = "github"
    /\ last = Idle
    /\ \E params \in Inputs(<<"repoName">>, <<"branch">>), ans \in Answers :
          DomainCall("actionListBranchCommits", params,
                     GH_actionListBranchCommits(params, client, owner, ans))

GhActionListCommitModifications ==
    /\ provider = "github"
    /\ last = Idle
    /\ \E params \in Inputs(<<"repoName", "commitSha">>, <<"includeContent">>), ans \in Answers :
          DomainCall("actionListCommitModifications", params,
                     GH_actionListCommitModifications(params, client, owner, ans))

GhActionGetCommitDetails ==
    /\ provider = "github"
    /\ last = Idle
    /\ \E params \in Inputs(<<"repoName", "commitSha">>, <<>>), ans \in Answers :
          DomainCall("actionGetCommitDetails", params,
                     GH_actionGetCommitDetails(params, client, owner, ans))

GhActionCommitsDiff ==
    /\ provider = "github"
    /\ last = Idle
    /\ \E params \in Inputs(<<"repoName", "baseCommit", "headCommit">>, <<"filePath">>), ans \in Answers :
          DomainCall("actionCommitsDiff", params,
                     GH_actionCommitsDiff(params, client, owner, ans))

GhActionCommentPrs ==
    /\ provider = "github"
    /\ last = Idle
    /\ \E params \in Inputs(<<"repoName", "prNumber", "comment">>, <<>>), ans \in Answers :
          DomainCall("actionCommentPrs", params,
                     GH_actionCommentPrs(params, client, owner, ans))

GhActionListPipelines ==
    /\ provider = "github"
    /\ last = Idle
    /\ \E params \in Inputs(<<"repoName">>, <<>>), ans \in Answers :
          DomainCall("actionListPipelines", params,
                     GH_actionListPipelines(params, client, owner, ans))

GhActionListDeployments ==
    /\ provider = "github"
    /\ last = Idle
    /\ \E params \in Inputs(<<"repoName">>, <<>>), ans \in Answers :
          DomainCall("actionListDeployments", params,
                     GH_actionListDeployments(params, client, owner, ans))

BbActionListBitbucketWorkspaces ==
    /\ provider = "bitbucket"
    /\ last = Idle
    /\ \E params \in Inputs(<<>>, <<"page", "role">>), ans \in Answers :
          DomainCall("actionListBitbucketWorkspaces", params,
                     BB_actionListBitbucketWorkspaces(params, client, owner, ans))

BbActionListRepos ==
    /\ provider = "bitbucket"
    /\ last = Idle
    /\ \E params \in Inputs(<<>>, <<>>), ans \in Answers :
          DomainCall("actionListRepos", params,
                     BB_actionListRepos(params, client, owner, ans))

BbActionGetRepo ==
    /\ provider = "bitbucket"
    /\ last = Idle
    /\ \E params \in Inputs(<<"repoName">>, <<>>), ans \in Answers :
          DomainCall("actionGetRepo", params,
                     BB_actionGetRepo(params, client, owner, ans))

BbActionListRepoContents ==
    /\ provider = "bitbucket"
    /\ last = Idle
    /\ \E params \in Inputs(<<"repoName", "ref">>, <<>>), ans \in Answers :
          DomainCall("actionListRepoContents", params,
                     BB_actionListRepoContents(params, client, owner, ans))

BbActionGetRepoFileContent ==
    /\ provider = "bitbucket"
    /\ last = Idle
    /\ \E params \in Inputs(<<"repoName", "path", "ref">>, <<>>), ans \in Answers :
          DomainCall("actionGetRepoFileContent", params,
                     BB_actionGetRepoFileContent(params, client, owner, ans))

BbActionListRepoBranches ==
    /\ provider = "bitbucket"
    /\ last = Idle
    /\ \E params \in Inputs(<<"repoName">>, <<>>), ans \in Answers :
          DomainCall("actionListRepoBranches", params,
                     BB_actionListRepoBranches(params, client, owner, ans))

BbActionListBranchCommits ==
    /\ provider = "bitbucket"
    /\ last = Idle
    /\ \E params \in Inputs(<<"repoName">>, <<"branch">>), ans \in Answers :
          DomainCall("actionListBranchCommits", params,
                     BB_actionListBranchCommits(params, client, owner, ans))

BbActionListCommitModifications ==
    /\ provider = "bitbucket"
    /\ last = Idle
    /\ \E params \in Inputs(<<"repoName", "commitSha">>, <<"includeContent">>),
          ans1 \in Answers, ans2 \in Answers :
          DomainCall("actionListCommitModifications", params,
                     BB_actionListCommitModifications(params, client, owner, ans1, ans2))

BbActionGetCommitDetails ==
    /\ provider = "bitbucket"
    /\ last = Idle
    /\ \E params \in Inputs(<<"repoName", "commitSha">>, <<>>),
          ans1 \in Answers, ans2 \in Answers :
          DomainCall("actionGetCommitDetails", params,
                     BB_actionGetCommitDetails(params, client, owner, ans1, ans2))

BbActionCommitsDiff ==
    /\ provider = "bitbucket"
    /\ last = Idle
    /\ \E params \in Inputs(<<"repoName", "baseCommit", "headCommit">>, <<>>), ans \in Answers :
          DomainCall("actionCommitsDiff", params,
                     BB_actionCommitsDiff(params, client, owner, ans))

BbActionCommentPRs ==
    /\ provider = "bitbucket"
    /\ last = Idle
    /\ \E params \in Inputs(<<"repoName", "prNumber", "comment">>, <<>>), ans \in Answers :
          DomainCall("actionCommentPRs", params,
                     BB_actionCommentPRs(params, client, owner, ans))

BbActionListPipelines ==
    /\ provider = "bitbucket"
    /\ last = Idle
    /\ \E params \in Inputs(<<"repoName">>, <<>>), ans \in Answers :
          DomainCall("actionListPipelines", params,
                     BB_actionListPipelines(params, client, owner, ans))

BbActionListDeployments ==
    /\ provider = "bitbucket"
    /\ last = Idle
    /\ \E params \in Inputs(<<"repoName">>, <<>>), ans \in Answers :
          DomainCall("actionListDeployments", params,
                     BB_actionListDeployments(params, client, owner, ans))

GhActions ==
    \/ GhActionListRepos
    \/ GhActionGetRepo
    \/ GhActionListRepoContents
    \/ GhActionGetRepoFileContent
    \/ GhActionListBranches
    \/ GhActionListBranchCommits
    \/ GhActionListCommitModifications
    \/ GhActionGetCommitDetails
    \/ GhActionCommitsDiff
    \/ GhActionCommentPrs
    \/ GhActionListPipelines
    \/ GhActionListDeployments

BbActions ==
    \/ BbActionListBitbucketWorkspaces
    \/ BbActionListRepos
    \/ BbActionGetRepo
    \/ BbActionListRepoContents
    \/ BbActionGetRepoFileContent
    \/ BbActionListRepoBranches
    \/ BbActionListBranchCommits
    \/ BbActionListCommitModifications
    \/ BbActionGetCommitDetails
    \/ BbActionCommitsDiff
    \/ BbActionCommentPRs
    \/ BbActionListPipelines
    \/ BbActionListDeployments

Next ==
    \/ GhInit
    \/ BbInit
    \/ GhUpdatePluginConfig(AllStores(provider))
    \/ ConfigChange(AllStores(provider))
    \/ Deliver

Spec == Init /\ [][Next]_vars

---------------------------------------------------------------------------
(* The provider with its domain actions, over a small set of configurations *)

\* No group at all, or the group with one set of accepted credentials.
FewStores(p) ==
    {<<>>,
     <<[name |-> GroupName(p),
        params |-> [i \in 1..Len(CredentialKeys(p)) |->
            [key |-> CredentialKeys(p)[i],
             value |-> CHOOSE v \in CredentialOptions[CredentialKeys(p)[i]] :
                          v \notin MissingValues]]]>>}

ActInit ==
    /\ provider \in Providers
    /\ client = NullClient
    /\ owner = Str(<<>>)
    /\ store \in FewStores(provider)
    /\ verified = FALSE
    /\ last = Idle
    /\ prevInit = NoInit
    /\ inits = <<>>
    /\ prevCall = NoCall

ActNext ==
    \/ GhInit
    \/ BbInit
    \/ GhUpdatePluginConfig(FewStores(provider))
    \/ ConfigChange(FewStores(provider))
    \/ Deliver
    \/ GhActions
    \/ BbActions

ActSpec == ActInit /\ [][ActNext]_vars

---------------------------------------------------------------------------
(* createClient called on its own *)

\* What a caller can pass as one credential: nothing, "", or a configured value.
CredentialArguments(values) == {Undefined, Str(<<>>)} \cup {v[1] : v \in values}

CreateClientCall(params, r) ==
    /\ VendorConsistent(provider, r.out.events)
    /\ client' = r.client
    /\ verified' = IF CheckedBy(r.out.events) = {} THEN verified
                   ELSE CheckedBy(r.out.events) = {200}
    /\ last' = Completed("createClient", params, <<>>, r.out)
    /\ UNCHANGED <<provider, owner, store, prevInit, inits, prevCall>>

GhCreateClient ==
    /\ provider = "github"
    /\ last = Idle
    /\ \E token \in CredentialArguments(TokenValues), ans \in Answers :
          CreateClientCall(<<[key |-> "token", value |-> <<token>>]>>,
                           GH_createClient(token, client, ans, <<>>))

BbCreateClient ==
    /\ provider = "bitbucket"
    /\ last = Idle
    /\ \E username \in CredentialArguments(UsernameValues),
          appPassword \in CredentialArguments(PasswordValues), ans \in Answers :
          CreateClientCall(<<[key |-> "username", value |-> <<username>>],
                             [key |-> "appPassword", value |-> <<appPassword>>]>>,
                           BB_createClient(username, appPassword, client, ans, <<>>))

ClientNext ==
    \/ GhInit
    \/ BbInit
    \/ GhCreateClient
    \/ BbCreateClient
    \/ Deliver

ClientSpec == ActInit /\ [][ClientNext]_vars

---------------------------------------------------------------------------
(* Vocabulary of the properties *)

LifecycleOps == {"init", "actionUpdatePluginConfig"}

\* The completed call is a domain action.
DomainActionDone == last.op \notin (LifecycleOps \cup {"idle"})

\* The parameters each action requires.
RequiredKeys(p, op) ==
    CASE op \in {"actionGetRepo", "actionListBranches", "actionListRepoBranches",
                 "actionListBranchCommits", "actionListPipelines",
                 "actionListDeployments"} -> {"repoName"}
      [] op = "actionListRepoContents" ->
            IF p = "github" THEN {"repoName"} ELSE {"repoName", "ref"}
      [] op = "actionGetRepoFileContent" -> {"repoName", "path"}
      [] op \in {"actionListCommitModifications", "actionGetCommitDetails"} ->
            {"repoName", "commitSha"}
      [] op = "actionCommitsDiff" -> {"repoName", "baseCommit", "headCommit"}
      [] op \in {"actionCommentPrs", "actionCommentPRs"} ->
            {"repoName", "prNumber", "comment"}
      [] OTHER -> {}

IsBlank(s) == \A i \in 1..Len(s) : s[i] = " "

\* The entry is absent, or its value is empty, or its first value is an empty or
\* whitespace-only string.
IsMissing(params, key) ==
    \/ \A i \in 1..Len(params) : params[i].key # key
    \/ \E i \in 1..Len(params) :
          /\ params[i].key = key
          /\ \/ params[i].value = <<>>
             \/ /\ params[i].value[1].t = "string"
                /\ IsBlank(params[i].value[1].s)

\* The first value a configuration holds under a key, as a string ("" if none).
ConfiguredString(p, st, key) ==
    IF \E i \in 1..Len(st) : st[i].name = GroupName(p)
    THEN LET g == st[CHOOSE i \in 1..Len(st) : st[i].name = GroupName(p)]
             hits == {i \in 1..Len(g.params) : g.params[i].key = key}
         IN  IF hits = {} THEN <<>>
             ELSE LET e == g.params[CHOOSE i \in hits : \A j \in hits : i <= j] IN
                  IF e.value = <<>> THEN <<>> ELSE e.value[1].s
    ELSE <<>>

SecretKeys(p) == IF p = "github" THEN <<"token">> ELSE <<"username", "appPassword">>

\* The credentials a configuration holds, in the order the client takes them.
ConfiguredAuth(p, st) ==
    [i \in 1..Len(SecretKeys(p)) |-> ConfiguredString(p, st, SecretKeys(p)[i])]

\* The credentials a client sends.
ClientAuth(cl) == [i \in 1..Len(cl.auth) |-> ToStr(cl.auth[i])]

\* A required credential of the configuration is missing.
CredentialMissing(p, st) ==
    \/ ConfiguredString(p, st, "owner") = <<>>
    \/ \E i \in 1..Len(SecretKeys(p)) : ConfiguredAuth(p, st)[i] = <<>>

StoreReadOk ==
    \A i \in 1..Len(last.events) :
        last.events[i].ev = "getConfig" => last.events[i].ok

---------------------------------------------------------------------------
(* init as the steps it runs in: up to the await of the current-user call,   *)
(* and from the answer on. Other invocations run between the two.             *)

\* init up to await this.client.get("/user"): the fields are assigned and the
\* request is on its way (waiting), or init has thrown already.
GH_initBegin(st, cl, own, readOk) ==
    LET evs == <<StoreEvent("getConfig", readOk)>> IN
    IF ~readOk
    THEN [waiting |-> FALSE, out |-> GH_initCatch(Throw(StoreError, evs)),
          client |-> cl, owner |-> own]
    ELSE
    LET configs == getConfig(st, "github_config")
        token == OrElse(ConfigFirstValue(configs, "token"), Str(<<>>))
        newOwner == OrElse(ConfigFirstValue(configs, "owner"), Str(<<>>))
    IN  IF ~Truthy(token)
        THEN [waiting |-> FALSE,
              out |-> GH_initCatch(Throw(AppError(
                          "GitHub token not found in configurations",
                          401, "AUTH_FAILED"), evs)),
              client |-> cl, owner |-> newOwner]
        ELSE IF ~Truthy(newOwner)
        THEN [waiting |-> FALSE,
              out |-> GH_initCatch(Throw(AppError(
                          "GitHub owner (account username) not found in configurations",
                          401, "AUTH_FAILED"), evs)),
              client |-> cl, owner |-> newOwner]
        ELSE [waiting |-> TRUE, out |-> Return(NoReturn, evs),
              client |-> NewClient(<<token>>), owner |-> newOwner]

\* init from the answer to the request its createClient issued on the client
\* it created: createClient returns or re-throws, then the catch of init.
GH_initEnd(cl, ans, events) ==
    LET r == Http(cl, "GET", "/user", Str(<<>>), ans, events) IN
    GH_initCatch(IF r.thrown THEN r ELSE Return(NoReturn, r.events))

BB_initBegin(st, cl, own, readOk) ==
    LET evs == <<StoreEvent("getConfig", readOk)>> IN
    IF ~readOk
    THEN [waiting |-> FALSE, out |-> BB_initCatch(Throw(StoreError, evs)),
          client |-> cl, owner |-> own]
    ELSE
    LET configs == getConfig(st, "bitbucket_config")
        username == OrElse(ConfigWholeValue(configs, "username"), Str(<<>>))
        appPassword == OrElse(ConfigWholeValue(configs, "appPassword"), Str(<<>>))
        newOwner == OrElse(ConfigWholeValue(configs, "owner"), Str(<<>>))
    IN  IF ~Truthy(username) \/ ~Truthy(appPassword)
        THEN [waiting |-> FALSE,
              out |-> BB_initCatch(Throw(AppError("Bitbucket credentials not found",
                                                  401, "AUTH_FAILED"), evs)),
              client |-> cl, owner |-> newOwner]
        ELSE [waiting |-> TRUE, out |-> Return(NoReturn, evs),
              client |-> NewClient(<<username, appPassword>>), owner |-> newOwner]

BB_initEnd(cl, ans, events) ==
    LET r == Http(cl, "GET", "/user", Str(<<>>), ans, events) IN
    BB_initCatch(IF r.thrown
                 THEN ThrowInstead(r, AppError("Bitbucket authentication failed", 401,
                                               "AUTH_FAILED"))
                 ELSE Return(NoReturn, r.events))

\* How many invocations of init are followed together.
MaxOverlap == 2

\* The configurations that hold every credential.
CompleteStores(p) == {st \in AllStores(p) : ~CredentialMissing(p, st)}

\* The invocations that have completed.
Done == {i \in 1..Len(inits) : inits[i].order > 0}

\* An invocation of init: the configuration it read, the client and the owner
\* it assigned, its external calls so far, its place in the order of
\* completion (0 while it waits) and whether another invocation ran during it.
Invocation(st, b, order, overlap) ==
    [store |-> st, client |-> b.client, owner |-> b.owner, events |-> b.out.events,
     order |-> order, overlap |-> overlap]

\* An invocation starts: init runs up to its await, or to its throw.
InitBegin(b) ==
    /\ last = Idle
    /\ Len(inits) < MaxOverlap
    /\ client' = b.client
    /\ owner' = b.owner
    /\ IF b.waiting
       THEN /\ inits' = [i \in 1..Len(inits) |->
                            IF inits[i].order = 0
                            THEN [inits[i] EXCEPT !.overlap = TRUE]
                            ELSE inits[i]]
                        \o <<Invocation(store, b, 0, Done # 1..Len(inits))>>
            /\ UNCHANGED last
       ELSE /\ inits' = Append(inits, Invocation(store, b, Cardinality(Done) + 1, FALSE))
            /\ last' = Completed("init", <<>>, store, b.out)
    /\ verified' = IF b.waiting THEN FALSE ELSE verified
    /\ UNCHANGED <<provider, store, prevInit, prevCall>>

GhInitBegin ==
    /\ provider = "github"
    /\ \E readOk \in BOOLEAN : InitBegin(GH_initBegin(store, client, owner, readOk))

BbInitBegin ==
    /\ provider = "bitbucket"
    /\ \E readOk \in BOOLEAN : InitBegin(BB_initBegin(store, client, owner, readOk))

\* The answer to the credential check of a waiting invocation arrives and the
\* invocation completes; no field of the provider is assigned any more.
InitEnd(i, out) ==
    /\ last = Idle
    /\ VendorConsistent(provider, out.events)
    /\ inits' = [inits EXCEPT ![i].order = Cardinality(Done) + 1,
                              ![i].events = out.events]
    /\ last' = Completed("init", <<>>, inits[i].store, out)
    /\ verified' = IF inits[i].client = client THEN CheckedBy(out.events) = {200}
                   ELSE verified
    /\ UNCHANGED <<provider, client, owner, store, prevInit, prevCall>>

GhInitEnd ==
    /\ provider = "github"
    /\ \E i \in 1..Len(inits), ans \in Answers :
          /\ inits[i].order = 0
          /\ InitEnd(i, GH_initEnd(inits[i].client, ans, inits[i].events))

BbInitEnd ==
    /\ provider = "bitbucket"
    /\ \E i \in 1..Len(inits), ans \in Answers :
          /\ inits[i].order = 0
          /\ InitEnd(i, BB_initEnd(inits[i].client, ans, inits[i].events))

\* Every invocation has completed and its caller has its result.
Settle ==
    /\ last = Idle
    /\ inits # <<>>
    /\ Done = 1..Len(inits)
    /\ inits' = <<>>
    /\ UNCHANGED <<provider, client, owner, store, verified, last, prevInit, prevCall>>

OverlapInit ==
    /\ provider \in Providers
    /\ client = NullClient
    /\ owner = Str(<<>>)
    /\ store \in CompleteStores(provider)
    /\ verified = FALSE
    /\ last = Idle
    /\ prevInit = NoInit
    /\ inits = <<>>
    /\ prevCall = NoCall

OverlapNext ==
    \/ GhInitBegin
    \/ BbInitBegin
    \/ GhInitEnd
    \/ BbInitEnd
    \/ ConfigChange(CompleteStores(provider) \cup {<<>>})
    \/ Deliver
    \/ Settle

OverlapSpec == OverlapInit /\ [][OverlapNext]_vars

---------------------------------------------------------------------------
(* The GitHub provider through a sequence of config updates, with what the   *)
(* caller got from the call before                                            *)

\* The configurations in which every entry present holds a value.
RecoverStores ==
    {st \in AllStores("github") :
        \A g \in 1..Len(st) : \A i \in 1..Len(st[g].params) :
            st[g].params[i].value \notin MissingValues}

\* The completed call failed on missing or rejected credentials.
Failed401 ==
    last.thrown /\ (last.raised.statusCode = 401 \/ last.raised.status = 401)

\* The caller receives the completion of the call it awaited; what it was is
\* kept for the next call.
DeliverAndRecord ==
    /\ last # Idle
    /\ prevCall' = [op |-> last.op, thrown |-> last.thrown, auth401 |-> Failed401,
                    after401 |-> /\ prevCall.op = "actionUpdatePluginConfig"
                                 /\ prevCall.auth401]
    /\ last' = Idle
    /\ UNCHANGED <<provider, client, owner, store, verified, prevInit, inits>>

RecoverInit ==
    /\ provider = "github"
    /\ client = NullClient
    /\ owner = Str(<<>>)
    /\ store \in RecoverStores
    /\ verified = FALSE
    /\ last = Idle
    /\ prevInit = NoInit
    /\ inits = <<>>
    /\ prevCall = NoCall

RecoverNext ==
    \/ GhInit
    \/ GhUpdatePluginConfig(RecoverStores)
    \/ GhActionGetRepo
    \/ DeliverAndRecord

RecoverSpec == RecoverInit /\ [][RecoverNext]_vars

---------------------------------------------------------------------------
(* Properties *)

\* C1: an action invoked with a required parameter absent, empty or blank fails
\* with 400 MISSING_REQUIRED_PARAMS and issues no HTTP call.
C1_MissingParamRejected ==
    (/\ DomainActionDone
     /\ \E k \in RequiredKeys(provider, last.op) : IsMissing(last.params, k))
    => /\ last.thrown
       /\ last.error.statusCode = 400
       /\ last.error.errorCode = "MISSING_REQUIRED_PARAMS"
       /\ HttpCalls(last.events) = 0

\* C2: every failure that leaves init or an action is a NormalizedError with a
\* message, a statusCode and an errorCode; the HTTP client's own error object
\* never reaches the caller.
C2_OnlyNormalizedErrors ==
    last.thrown => /\ last.error.name = "AppError"
                   /\ last.error.statusCode # 0

\* C3: when a vendor call of an action answers 404, the action fails with 404
\* and a not-found errorCode, never with 500.
C3_NotFoundSurfaced ==
    (/\ DomainActionDone
     /\ \E i \in 1..Len(last.events) :
           last.events[i].ev = "http" /\ last.events[i].status = 404)
    => /\ last.thrown
       /\ last.error.statusCode = 404
       /\ last.error.errorCode \in {"RESOURCE_NOT_FOUND", "REPOSITORY_NOT_FOUND"}

\* C4: a NormalizedError thrown inside the body of an action leaves the action
\* with the same message, statusCode and errorCode.
C4_NormalizedErrorUnchanged ==
    (DomainActionDone /\ last.thrown /\ last.raised.name = "AppError")
    => last.error = last.raised

\* C5: init fails with 401 AUTH_FAILED whenever a required credential of the
\* configuration (token or owner; username, appPassword or owner) is missing.
C5_MissingCredentialIsAuthFailed ==
    (last.op = "init" /\ StoreReadOk /\ CredentialMissing(provider, store))
    => /\ last.thrown
       /\ last.error.statusCode = 401
       /\ last.error.errorCode = "AUTH_FAILED"

\* C6: after a failed init the client is null, or it passed the current-user
\* check with the credentials of the configuration now in effect.
C6_FailedInitLeavesNoStaleClient ==
    (last.op = "init" /\ last.thrown)
    => \/ client = NullClient
       \/ /\ verified
          /\ ClientAuth(client) = ConfiguredAuth(provider, store)

\* C7: when init succeeded under one configuration and succeeds again under a
\* different one, owner and client are those of the second configuration.
C7_SecondInitReplacesState ==
    (/\ last.op = "init"
     /\ ~last.thrown
     /\ prevInit.ok
     /\ prevInit.store # store)
    => /\ ToStr(owner) = ConfiguredString(provider, store, "owner")
       /\ client.live
       /\ ClientAuth(client) = ConfiguredAuth(provider, store)

C7_Witness ==
    /\ last.op = "init"
    /\ ~last.thrown
    /\ prevInit.ok
    /\ ConfiguredString(provider, prevInit.store, "owner") # <<>>
    /\ ConfiguredString(provider, prevInit.store, "owner")
          # ConfiguredString(provider, store, "owner")
    /\ ConfiguredAuth(provider, prevInit.store) # ConfiguredAuth(provider, store)
    /\ last.pre.client.live
    /\ ClientAuth(last.pre.client) = ConfiguredAuth(provider, prevInit.store)

\* C8: a successful actionUpdatePluginConfig has saved the new groups first and
\* run init after that; it returns the success message with the groups it was
\* given, and client and owner are those of the new groups.
C8_UpdatePersistsThenInits ==
    (last.op = "actionUpdatePluginConfig" /\ ~last.thrown)
    => /\ Len(last.events) >= 2
       /\ last.events[1].ev = "saveConfigs"
       /\ \A i \in 2..Len(last.events) : last.events[i].ev # "saveConfigs"
       /\ last.events[2].ev = "getConfig"
       /\ last.value = [shape |-> "configUpdate",
                        message |-> "Configuration updated successfully",
                        configs |-> last.configs, fields |-> {}]
       /\ store = last.configs
       /\ client.live
       /\ ClientAuth(client) = ConfiguredAuth(provider, last.configs)
       /\ ToStr(owner) = ConfiguredString(provider, last.configs, "owner")

C8_Witness ==
    /\ last.op = "actionUpdatePluginConfig"
    /\ ~last.thrown
    /\ last.pre.client.live
    /\ last.pre.store # last.configs
    /\ ClientAuth(last.pre.client) # ConfiguredAuth(provider, last.configs)
    /\ ToStr(last.pre.owner) # ConfiguredString(provider, last.configs, "owner")

\* C9: every failure of actionUpdatePluginConfig, from saveConfigs or from the
\* init it runs (a 401 AUTH_FAILED included), is thrown as 500
\* CONFIG_UPDATE_FAILED.
C9_UpdateFailureWrapped ==
    (last.op = "actionUpdatePluginConfig" /\ last.thrown)
    => /\ last.error.name = "AppError"
       /\ last.error.statusCode = 500
       /\ last.error.errorCode = "CONFIG_UPDATE_FAILED"

C9_Witness ==
    /\ last.op = "actionUpdatePluginConfig"
    /\ last.thrown
    /\ last.raised.statusCode = 401
    /\ last.raised.errorCode = "AUTH_FAILED"

\* C10: a domain action invoked while the client is null ends in a thrown
\* failure and issues no HTTP call.
C10_NullClientFailsBeforeHttp ==
    (DomainActionDone /\ ~last.pre.client.live)
    => /\ last.thrown
       /\ HttpCalls(last.events) = 0

C10_Witness ==
    /\ DomainActionDone
    /\ ~last.pre.client.live
    /\ RequiredKeys(provider, last.op) # {}
    /\ \A k \in RequiredKeys(provider, last.op) : ~IsMissing(last.params, k)
    /\ last.thrown

\* How a caller says includeContent = false in configs.params: no entry, the
\* boolean false, or the string "false".
IncludeContentOff(params) ==
    \/ \A i \in 1..Len(params) : params[i].key # "includeContent"
    \/ FirstValue(params, "includeContent") \in {Bool(FALSE), Str(<<"f", "a", "l", "s", "e">>)}

\* The fields that carry the content of a modified file.
ContentFields == {"patch", "diffContent"}

\* C11: actionListCommitModifications with includeContent = false (in any of its
\* representations) returns entries that have exactly the fields filename,
\* status, additions, deletions and changes; with includeContent = true the
\* entries carry the per-file content.
C11_ModificationsShapedByFlag ==
    (/\ last.op = "actionListCommitModifications"
     /\ ~last.thrown
     /\ last.value.shape \in {"files", "modifications"})
    => /\ IncludeContentOff(last.params) => last.value.fields = SummaryFields
       /\ FirstValue(last.params, "includeContent") = Bool(TRUE)
             => last.value.fields \cap ContentFields # {}

\* The statuses the credential check of the completed call was answered with.
CredentialCheckStatuses == CheckedBy(last.events)

\* C12: when every required credential is configured and init fails for a
\* reason other than authentication (the credential check is answered with a
\* 5xx status or not at all, or the config store read throws), init fails with
\* statusCode 500, not 401.
C12_OtherInitFailureIs500 ==
    (/\ last.op = "init"
     /\ last.thrown
     /\ ~CredentialMissing(provider, store)
     /\ \/ ~StoreReadOk
        \/ CredentialCheckStatuses \cap {500, NetworkError} # {})
    => last.error.statusCode = 500

\* One of the credentials passed to createClient is absent or empty.
CredentialArgumentMissing ==
    \E i \in 1..Len(last.params) : ~Truthy(last.params[i].value[1])

\* C13: createClient returns after exactly one current-user call, with the
\* profile that call sent; it fails with 401 AUTH_FAILED when a credential passed
\* to it is absent or empty and when the vendor rejects the credentials.
C13_CreateClientChecksCredentials ==
    last.op = "createClient"
    => /\ ~last.thrown
           => /\ HttpCalls(last.events) = 1
              /\ last.events[1].route = "/user"
              /\ last.events[1].status = 200
              /\ last.value \in {Data("ok"), Data("empty")}
       /\ (CredentialArgumentMissing \/ 401 \in CredentialCheckStatuses)
           => /\ last.thrown
              /\ last.error.statusCode = 401
              /\ last.error.errorCode = "AUTH_FAILED"

\* Every invocation followed has made its credential-check call and completed.
AllChecked ==
    /\ Done = 1..Len(inits)
    /\ \A i \in 1..Len(inits) : HttpCalls(inits[i].events) = 1

\* C14: when two invocations of init overlap and both have completed, owner and
\* client are those assigned by the invocation that completed last.
C14_LastCompletedInitWins ==
    \A i \in 1..Len(inits) :
        (/\ Len(inits) = 2
         /\ AllChecked
         /\ inits[i].overlap
         /\ inits[i].order = 2)
        => /\ owner = inits[i].owner
           /\ client = inits[i].client

\* The status the catch block of the completed call saw on the failure:
\* response.status of a rejected HTTP call, statusCode of a thrown AppError,
\* none (0) for an internal exception or a call that got no answer.
ObservedStatus ==
    IF last.raised.status # 0 THEN last.raised.status ELSE last.raised.statusCode

\* A failure of an action whose observed status is neither 400 nor 404 is thrown
\* as statusCode 500 with a non-empty errorCode.
OtherFailuresAre500 ==
    (DomainActionDone /\ last.thrown /\ ObservedStatus \notin {400, 404})
    => /\ last.error.name = "AppError"
       /\ last.error.statusCode = 500
       /\ last.error.errorCode \notin {NoValue, ""}

\* C15: a failure of an action whose observed status is neither 400 nor 404 is
\* thrown as statusCode 500 with the action's errorCode; the statusCode of every
\* failure an action throws is 400, 404 or 500.
C15_ActionStatusCodes ==
    /\ OtherFailuresAre500
    /\ (DomainActionDone /\ last.thrown) => last.error.statusCode \in {400, 404, 500}

\* The positions of the HTTP calls among the external calls of the completed
\* invocation.
HttpPositions == {i \in 1..Len(last.events) : last.events[i].ev = "http"}

\* C16: once an HTTP call of an invocation of init, actionUpdatePluginConfig or
\* an action has been rejected, the invocation issues no further HTTP call and
\* ends with a thrown failure; no call is issued twice.
C16_FailFast ==
    /\ \A i \in HttpPositions :
          ~last.events[i].ok
          => /\ last.thrown
             /\ \A j \in HttpPositions : j <= i
    /\ \A i, j \in HttpPositions :
          last.events[i].route = last.events[j].route => i = j

\* A two-call action asked for content whose first call is rejected.
C16_Witness ==
    /\ provider = "bitbucket"
    /\ last.op = "actionListCommitModifications"
    /\ FirstValue(last.params, "includeContent") = Bool(TRUE)
    /\ HttpPositions = {1}
    /\ ~last.events[1].ok
    /\ last.thrown

\* Every external call of the completed invocation succeeded.
AllCallsOk == \A i \in 1..Len(last.events) : last.events[i].ok

\* C17: from any state of the provider, the one left by a config update that
\* failed on missing or rejected credentials included, actionUpdatePluginConfig
\* with a configuration that holds every credential, accepted by the vendor,
\* succeeds: the client is the one built from the new token and has passed the
\* check, and owner is the new owner; an action invoked after it calls the
\* vendor with that client and that owner.
C17_UpdateRecovers ==
    /\ (/\ last.op = "actionUpdatePluginConfig"
        /\ ~CredentialMissing(provider, last.configs)
        /\ AllCallsOk)
       => /\ ~last.thrown
          /\ client.live
          /\ verified
          /\ ClientAuth(client) = ConfiguredAuth(provider, last.configs)
          /\ ToStr(owner) = ConfiguredString(provider, last.configs, "owner")
    /\ (/\ DomainActionDone
        /\ prevCall.op = "actionUpdatePluginConfig"
        /\ ~prevCall.thrown)
       => \A i \in HttpPositions :
             /\ last.events[i].auth = ConfiguredAuth(provider, store)
             /\ last.events[i].owner = ConfiguredString(provider, store, "owner")

\* An action calls the vendor after a config update that succeeded right after
\* one that failed on credentials.
C17_Witness ==
    /\ DomainActionDone
    /\ HttpPositions # {}
    /\ prevCall.op = "actionUpdatePluginConfig"
    /\ ~prevCall.thrown
    /\ prevCall.after401

\* The external calls of the completed invocation of this kind.
CallsOf(what) == {i \in 1..Len(last.events) : last.events[i].ev = what}

\* C18: when saveConfigs fails inside actionUpdatePluginConfig, init is not run
\* and client and owner are as they were before the call; when saveConfigs
\* succeeds and init then fails, the config store holds the new configuration
\* and nothing is saved a second time.
C18_UpdateFailureFrame ==
    last.op = "actionUpdatePluginConfig"
    => /\ (\E i \in CallsOf("saveConfigs") : ~last.events[i].ok)
          => /\ last.thrown
             /\ CallsOf("getConfig") = {}
             /\ HttpPositions = {}
             /\ client = last.pre.client
             /\ owner = last.pre.owner
       /\ (last.thrown /\ \A i \in CallsOf("saveConfigs") : last.events[i].ok)
          => /\ Cardinality(CallsOf("saveConfigs")) = 1
             /\ CallsOf("getConfig") # {}
             /\ store = last.configs

\* A config update whose init failed after the new groups replaced others.
C18_Witness ==
    /\ last.op = "actionUpdatePluginConfig"
    /\ last.thrown
    /\ CallsOf("saveConfigs") = {1}
    /\ last.events[1].ok
    /\ last.pre.store # last.configs
    /\ last.pre.client.live
    /\ store = last.configs

=============================================================================
